---- MODULE Spec2Model ----
(***************************************************************************)
(* A model of the LZArena region/arena allocator (src/lzarena.c).          *)
(*                                                                         *)
(* Addresses and sizes are machine words of WordBits bits; arithmetic on   *)
(* size_t / uintptr_t values is taken modulo Word.  The platform numbers   *)
(* (page size, header sizes, default alignment) are scaled down so that    *)
(* the whole address space can be explored: one unit of the model stands   *)
(* for one 8-byte word of a 64-bit build.  The header lzarena.h is not     *)
(* part of the sources at hand; what it defines (LZARENA_DEFAULT_FACTOR,   *)
(* LZARENA_DEFAULT_ALIGNMENT, LZREGION_FREE, the field lists) is taken     *)
(* from the uses in lzarena.c and from the specification.                  *)
(***************************************************************************)
EXTENDS Integers, Sequences, FiniteSets, TLC

\* ---------------------------------------------------------------- bounds
WordBits == 8
MaxRegions == 2
MaxPad == 0
BaseAddr == 8

\* ------------------------------------------------------ program constants
NULL == 0
PAGE_SIZE == 16
LZARENA_DEFAULT_FACTOR == 1
LZARENA_DEFAULT_ALIGNMENT == 2
REGION_SIZE == 5
ARENA_SIZE == 3

Word == 2 ^ WordBits
\* Buffers handed out by the backend lie in the lower half of the address
\* space (user-space addresses of the supported platforms).
AddrLimit == Word \div 2

\* ------------------------------------------------------------ input sets
\* Request sizes: empty, small, larger than one block, and close to the top of
\* the size_t range.
Sizes == {0, 4, 20, Word - 3}
NewSizes == {4, 20}
Alignments == {1, 8}
\* What the backend answers to one acquire call: -1 is failure, p >= 0 is
\* success with p units of slack before the buffer.
BackendChoices == (-1) .. MaxPad
UBOutcomes == {"trap", "none"}

\* ------------------------------------------------------- alignment utils
RECURSIVE BitAnd(_, _)
BitAnd(a, b) ==
    IF a = 0 \/ b = 0 THEN 0
    ELSE (a % 2) * (b % 2) + 2 * BitAnd(a \div 2, b \div 2)

is_power_of_two(x) == BitAnd(x, (x - 1) % Word) = 0

align_forward(addr, alignment) ==
    LET module  == BitAnd(addr, (alignment - 1) % Word)
        padding == IF module = 0 THEN 0 ELSE (alignment - module) % Word
    IN  (padding + addr) % Word

\* ------------------------------------------------------------------ state
VARIABLES
    head,        \* arena->head: address of the first region, NULL if none
    tail,        \* arena->tail: address of the region the search starts at
    region,      \* the region headers in memory: address -> LZRegion fields
    allocator,   \* arena->allocator: TRUE iff a custom backend was supplied
    brk,         \* backend: lowest address not yet handed out
    acq,         \* backend: the buffers acquired so far, <<[addr, len]>>
    rel,         \* backend: the release calls made so far, <<[addr, len]>>
    pc,          \* "live", "destroyed", or how the process died: "assert", "trap"
    occupied,    \* addresses inside blocks returned since the last free_all
    fresh,       \* TRUE iff the last call on the arena was free_all
    sinceAppend, \* TRUE iff free_all was called since the last region append
    probe,       \* a (size, alignment) pair followed through the run
    probeSeen    \* TRUE iff lzarena_alloc_align(probe) has succeeded

vars == <<head, tail, region, allocator, brk, acq, rel, pc, occupied, fresh,
          sinceAppend, probe, probeSeen>>

\* The arena, its regions and the backend as one value, as the C functions
\* see them through the LZArena pointer.
Arena == [head |-> head, tail |-> tail, region |-> region, brk |-> brk, acq |-> acq]

\* ---------------------------------------------------------------- backend
\* The address the backend picks for the next buffer.  malloc / mmap /
\* VirtualAlloc return suitably aligned memory; a custom backend may return
\* any address.
BackendAddr(a, pad) ==
    IF allocator THEN a.brk + pad
    ELSE align_forward(a.brk + pad, LZARENA_DEFAULT_ALIGNMENT)

\* lzalloc / malloc: the buffer address, or NULL when the backend fails or
\* is out of memory.
lzalloc(size, a, choice) ==
    IF choice < 0 \/ Len(a.acq) - 1 >= MaxRegions
       \/ BackendAddr(a, choice) + size > AddrLimit
    THEN NULL
    ELSE BackendAddr(a, choice)

\* The backend after handing out [buf, buf + size).
Acquired(a, size, buf) ==
    [a EXCEPT !.brk = buf + size,
              !.acq = Append(a.acq, [addr |-> buf, len |-> size])]

\* ----------------------------------------------------------------- region
\* The two assertions of lzregion_init.
lzregion_init_asserts(buff_size, buffer) ==
    LET buff_end     == (buffer + buff_size) % Word
        region_start == align_forward(buffer, LZARENA_DEFAULT_ALIGNMENT)
        region_end   == (region_start + REGION_SIZE) % Word
        chunk_start  == align_forward(region_end, LZARENA_DEFAULT_ALIGNMENT)
    IN  /\ chunk_start <= buff_end
        /\ (buff_end - chunk_start) % Word < buff_size

\* lzregion_init: where the header is placed and what it holds.
lzregion_init(buff_size, buffer) ==
    LET buff_end     == (buffer + buff_size) % Word
        region_start == align_forward(buffer, LZARENA_DEFAULT_ALIGNMENT)
        region_end   == (region_start + REGION_SIZE) % Word
        chunk_start  == align_forward(region_end, LZARENA_DEFAULT_ALIGNMENT)
    IN  [addr |-> region_start,
         hdr  |-> [region_len |-> buff_size,
                   chunk_len  |-> (buff_end - chunk_start) % Word,
                   offset     |-> chunk_start,
                   chunk      |-> chunk_start,
                   next       |-> NULL]]

lzregion_available(r) ==
    LET buff_start == r.offset
        buff_end   == (buff_start + r.chunk_len) % Word
    IN  (buff_end - buff_start) % Word

lzregion_available_asserts(r) == r.offset < (r.offset + r.chunk_len) % Word

lzregion_available_alignment(alignment, r) ==
    LET chunk_end == (r.chunk + r.chunk_len) % Word
        offset    == align_forward(r.offset, alignment)
    IN  IF offset >= chunk_end THEN 0 ELSE chunk_end - offset

\* lzregion_alloc_align with the cursor bumped from its unaligned position.
lzregion_alloc_align_unaligned_bump(size, alignment, r) ==
    LET available == lzregion_available_alignment(alignment, r)
        offset    == align_forward(r.offset, alignment)
    IN  IF size > available
        THEN [ptr |-> NULL, hdr |-> r]
        ELSE [ptr |-> offset, hdr |-> [r EXCEPT !.offset = (r.offset + size) % Word]]

\* lzregion_alloc_align: the pointer returned and the region afterwards.
lzregion_alloc_align(size, alignment, r) ==
    LET available == lzregion_available_alignment(alignment, r)
        offset    == align_forward(r.offset, alignment)
    IN  IF size > available
        THEN [ptr |-> NULL, hdr |-> r]
        ELSE [ptr |-> offset, hdr |-> [r EXCEPT !.offset = (offset + size) % Word]]

\* LZREGION_FREE (a macro of lzarena.h): the cursor goes back to the base.
LZREGION_FREE(r) == [r EXCEPT !.offset = r.chunk]

\* The memory-writing library calls (memset, memcpy) a function makes, in
\* order.  Memory itself is a function from addresses to byte values.
Addrs == 0 .. (Word - 1)

memset(m, dst, c, n) ==
    [x \in Addrs |-> IF dst <= x /\ x < dst + n THEN c ELSE m[x]]

memcpy(m, dst, src, n) ==
    [x \in Addrs |-> IF dst <= x /\ x < dst + n THEN m[(x - dst) + src] ELSE m[x]]

\* Memory m after the calls ws, a sequence of at most one memset or memcpy.
Written(m, ws) ==
    IF ws = <<>> THEN m
    ELSE IF ws[1].op = "memset" THEN memset(m, ws[1].dst, 0, ws[1].n)
    ELSE memcpy(m, ws[1].dst, ws[1].src, ws[1].n)

\* zero_block stopping one byte short.
zero_block_one_short(ptr, size) ==
    IF ptr # NULL
    THEN <<[op |-> "memset", dst |-> ptr, src |-> NULL, n |-> size - 1]>>
    ELSE <<>>

\* Line 217 / 313: the block is zeroed when the pointer is not NULL.
zero_block(ptr, size) ==
    IF ptr # NULL
    THEN <<[op |-> "memset", dst |-> ptr, src |-> NULL, n |-> size]>>
    ELSE <<>>

\* copy_block with source and destination exchanged.
copy_block_swapped(new_ptr, ptr, old_size) ==
    IF ptr # NULL
    THEN <<[op |-> "memcpy", dst |-> ptr, src |-> new_ptr, n |-> old_size]>>
    ELSE <<>>

\* Line 225 / 321: old_size bytes are copied when the old pointer is not NULL.
copy_block(new_ptr, ptr, old_size) ==
    IF ptr # NULL
    THEN <<[op |-> "memcpy", dst |-> new_ptr, src |-> ptr, n |-> old_size]>>
    ELSE <<>>

\* lzregion_calloc_align: the result of lzregion_alloc_align and the memset.
lzregion_calloc_align(size, alignment, r) ==
    [ptr    |-> lzregion_alloc_align(size, alignment, r).ptr,
     hdr    |-> lzregion_alloc_align(size, alignment, r).hdr,
     writes |-> zero_block(lzregion_alloc_align(size, alignment, r).ptr, size)]

\* lzregion_realloc_align: the pointer returned, the region afterwards and
\* the memcpy made.
lzregion_realloc_align(ptr, old_size, new_size, alignment, r) ==
    IF new_size <= old_size
    THEN [ptr |-> ptr, hdr |-> r, writes |-> <<>>]
    ELSE [ptr    |-> lzregion_alloc_align(new_size, alignment, r).ptr,
          hdr    |-> lzregion_alloc_align(new_size, alignment, r).hdr,
          writes |-> copy_block(lzregion_alloc_align(new_size, alignment, r).ptr,
                                ptr, old_size)]

\* ------------------------------------------------------------------ arena
\* The regions reached from h by following next, at most fuel of them.
RECURSIVE ChainFrom(_, _, _)
ChainFrom(rs, h, fuel) ==
    IF h = NULL \/ fuel = 0 \/ h \notin DOMAIN rs THEN <<>>
    ELSE <<h>> \o ChainFrom(rs, rs[h].next, fuel - 1)

Chain(a) == ChainFrom(a.region, a.head, Cardinality(DOMAIN a.region) + 1)

Range(s) == {s[i] : i \in DOMAIN s}

\* Lines 80-87 of append_region: the length asked of the backend.
buff_len_for(size0) ==
    LET size     == (size0 + REGION_SIZE) % Word
        buff_len == (PAGE_SIZE * LZARENA_DEFAULT_FACTOR) % Word
    IN  IF size > buff_len
        THEN LET factor  == size \div buff_len
                 factor1 == IF (factor * buff_len) % Word < size
                            THEN (factor + 1) % Word ELSE factor
             IN  (factor1 * buff_len) % Word
        ELSE buff_len

\* link_region without line 107: tail is set only when the chain was empty.
link_region_keep_tail(a, r) ==
    [a EXCEPT !.region = IF a.tail # NULL
                         THEN (r.addr :> r.hdr) @@
                              [a.region EXCEPT ![a.tail].next = r.addr]
                         ELSE (r.addr :> r.hdr) @@ a.region,
              !.head   = IF a.tail # NULL THEN a.head ELSE r.addr,
              !.tail   = IF a.tail # NULL THEN a.tail ELSE r.addr]

\* link_region with line 104 outside the else: head always becomes the new
\* region.
link_region_always_head(a, r) ==
    [a EXCEPT !.region = IF a.tail # NULL
                         THEN (r.addr :> r.hdr) @@
                              [a.region EXCEPT ![a.tail].next = r.addr]
                         ELSE (r.addr :> r.hdr) @@ a.region,
              !.head   = r.addr,
              !.tail   = r.addr]

\* Lines 101-107 of append_region: the new region is linked behind tail.
link_region(a, r) ==
    [a EXCEPT !.region = IF a.tail # NULL
                         THEN (r.addr :> r.hdr) @@
                              [a.region EXCEPT ![a.tail].next = r.addr]
                         ELSE (r.addr :> r.hdr) @@ a.region,
              !.head   = IF a.tail # NULL THEN a.head ELSE r.addr,
              !.tail   = r.addr]

\* Lines 94-109 of append_region, buff being the buffer the backend gave.
append_buffer(a, buff_len, buff) ==
    IF ~lzregion_init_asserts(buff_len, buff)
    THEN [a |-> Acquired(a, buff_len, buff), rc |-> 1, died |-> "assert"]
    ELSE [a    |-> link_region(Acquired(a, buff_len, buff),
                               lzregion_init(buff_len, buff)),
          rc   |-> 0,
          died |-> "live"]

\* append_region: rc is its return value (0 appended, 1 failed); died is
\* "assert" when an assertion of lzregion_init fails.
append_region(size, a, choice) ==
    IF lzalloc(buff_len_for(size), a, choice) = NULL
    THEN [a |-> a, rc |-> 1, died |-> "live"]
    ELSE append_buffer(a, buff_len_for(size), lzalloc(buff_len_for(size), a, choice))

\* The loop never advancing tail.
walk_tail_stay(rs, t, size, alignment) == t

\* The while loop of lzarena_alloc_align (lines 294-303): where tail stops.
RECURSIVE walk_tail(_, _, _, _)
walk_tail(rs, t, size, alignment) ==
    IF rs[t].next # NULL /\ lzregion_available_alignment(alignment, rs[t]) < size
    THEN walk_tail(rs, rs[t].next, size, alignment)
    ELSE t

\* Line 308: the bump allocation from the region tail points at.
alloc_from_tail(size, alignment, a) ==
    LET res == lzregion_alloc_align(size, alignment, a.region[a.tail])
    IN  [a    |-> [a EXCEPT !.region[a.tail] = res.hdr],
         ptr  |-> res.ptr,
         died |-> "live"]

\* Lines 306-308 once append_region has answered: NULL when it failed, else
\* the allocation from the new tail.
alloc_after_append(size, alignment, grown) ==
    IF grown.died # "live" \/ grown.rc # 0
    THEN [a |-> grown.a, ptr |-> NULL, died |-> grown.died]
    ELSE alloc_from_tail(size, alignment, grown.a)

\* Lines 305-308, with tail where the loop left it.
alloc_at_tail(size, alignment, a1, choice) ==
    IF size > lzregion_available_alignment(alignment, a1.region[a1.tail])
    THEN alloc_after_append(size, alignment, append_region(size, a1, choice))
    ELSE alloc_from_tail(size, alignment, a1)

\* alloc_in_chain with the search restarted at head on every call.
alloc_in_chain_from_head(size, alignment, a, choice) ==
    IF ~is_power_of_two(alignment)
    THEN [a |-> a, ptr |-> NULL, died |-> "assert"]
    ELSE alloc_at_tail(size, alignment,
                       [a EXCEPT !.tail = walk_tail(a.region, a.head, size, alignment)],
                       choice)

\* Lines 294-308, entered with a non-empty chain.  The first call of
\* align_forward asserts that alignment is a power of two.
alloc_in_chain(size, alignment, a, choice) ==
    IF ~is_power_of_two(alignment)
    THEN [a |-> a, ptr |-> NULL, died |-> "assert"]
    ELSE alloc_at_tail(size, alignment,
                       [a EXCEPT !.tail = walk_tail(a.region, a.tail, size, alignment)],
                       choice)

\* Line 292 once append_region has answered, and the rest of the function.
alloc_after_first(size, alignment, first, choice) ==
    IF first.died # "live" \/ first.rc # 0
    THEN [a |-> first.a, ptr |-> NULL, died |-> first.died]
    ELSE alloc_in_chain(size, alignment, first.a, choice)

\* lzarena_alloc_align: the arena and backend afterwards, the pointer
\* returned, and whether the call died instead of returning.  c1 and c2 are
\* the backend's answers to the acquisitions of line 292 and line 306.
lzarena_alloc_align(size, alignment, a, c1, c2) ==
    IF a.tail = NULL
    THEN alloc_after_first(size, alignment, append_region(size, a, c1), c2)
    ELSE alloc_in_chain(size, alignment, a, c2)

\* lzarena_free_all without line 288: tail stays where it was.
lzarena_free_all_keep_tail(a) ==
    [a EXCEPT !.region = [x \in DOMAIN a.region |->
                             IF x \in Range(Chain(a))
                             THEN LZREGION_FREE(a.region[x])
                             ELSE a.region[x]]]

\* lzarena_free_all: every region of the chain is reset, tail goes to head.
lzarena_free_all(a) ==
    [a EXCEPT !.region = [x \in DOMAIN a.region |->
                             IF x \in Range(Chain(a))
                             THEN LZREGION_FREE(a.region[x])
                             ELSE a.region[x]],
              !.tail   = a.head]

\* lzarena_report: the two sums, as the loop computes them (lines 267-273).
RECURSIVE report_used(_, _)
report_used(rs, c) ==
    IF c = <<>> THEN 0
    ELSE (((rs[Head(c)].chunk_len - lzregion_available(rs[Head(c)])) % Word)
          + report_used(rs, Tail(c))) % Word

RECURSIVE report_size(_, _)
report_size(rs, c) ==
    IF c = <<>> THEN 0
    ELSE (rs[Head(c)].chunk_len + report_size(rs, Tail(c))) % Word

lzarena_report(a) ==
    [used |-> report_used(a.region, Chain(a)),
     size |-> report_size(a.region, Chain(a))]

\* report_walk iterating with arena->tail instead of a local pointer.
RECURSIVE report_walk_through_tail(_, _, _, _)
report_walk_through_tail(a, current, u, s) ==
    IF current = NULL
    THEN [a |-> a, used |-> u, size |-> s]
    ELSE report_walk_through_tail(
             [a EXCEPT !.tail = current], a.region[current].next,
             (u + ((a.region[current].chunk_len
                    - lzregion_available(a.region[current])) % Word)) % Word,
             (s + a.region[current].chunk_len) % Word)

\* The loop of lzarena_report (lines 267-273) from region current on, u and s
\* being the sums so far: the arena as the loop leaves it and the two numbers
\* stored through used and size.
RECURSIVE report_walk(_, _, _, _)
report_walk(a, current, u, s) ==
    IF current = NULL
    THEN [a |-> a, used |-> u, size |-> s]
    ELSE report_walk(
             a, a.region[current].next,
             (u + ((a.region[current].chunk_len
                    - lzregion_available(a.region[current])) % Word)) % Word,
             (s + a.region[current].chunk_len) % Word)

lzarena_report_asserts(a) ==
    \A x \in Range(Chain(a)) : lzregion_available_asserts(a.region[x])

\* lzarena_destroy: the release calls, in order.
lzarena_destroy(a) ==
    [i \in 1 .. Len(Chain(a)) |->
        [addr |-> Chain(a)[i], len |-> a.region[Chain(a)[i]].region_len]]
    \o <<[addr |-> a.acq[1].addr, len |-> ARENA_SIZE]>>

\* lzarena_calloc_align: lzarena_alloc_align, then the block is zeroed.
lzarena_calloc_align(size, alignment, a, c1, c2) ==
    lzarena_alloc_align(size, alignment, a, c1, c2)

\* The memset of line 313, res being what lzarena_alloc_align gave.
calloc_zero(size, res) ==
    IF res.died # "live" THEN <<>> ELSE zero_block(res.ptr, size)

\* The memory-writing calls lzarena_calloc_align makes.
lzarena_calloc_align_writes(size, alignment, a, c1, c2) ==
    calloc_zero(size, lzarena_alloc_align(size, alignment, a, c1, c2))

\* Line 321 of lzarena_realloc_align, res being what lzarena_alloc_align
\* gave.  nullcopy tells that memcpy was called with a NULL destination:
\* undefined behaviour, which traps when bytes are written (ub = "trap") or
\* passes unnoticed.
copy_old(ptr, old_size, res, ub) ==
    IF res.died # "live"
    THEN [a |-> res.a, ptr |-> NULL, died |-> res.died, nullcopy |-> FALSE]
    ELSE IF ptr # NULL /\ res.ptr = NULL
    THEN [a        |-> res.a,
          ptr      |-> NULL,
          died     |-> IF old_size > 0 /\ ub = "trap" THEN "trap" ELSE "live",
          nullcopy |-> TRUE]
    ELSE [a |-> res.a, ptr |-> res.ptr, died |-> "live", nullcopy |-> FALSE]

\* lzarena_realloc_align without line 318: a new block whatever the sizes.
lzarena_realloc_align_always_grow(ptr, old_size, new_size, alignment, a, c1, c2, ub) ==
    copy_old(ptr, old_size, lzarena_alloc_align(new_size, alignment, a, c1, c2), ub)

\* The memcpy of line 321, res being what lzarena_alloc_align gave.
realloc_copy(ptr, old_size, res) ==
    IF res.died # "live" THEN <<>> ELSE copy_block(res.ptr, ptr, old_size)

\* The memory-writing calls lzarena_realloc_align makes.
lzarena_realloc_align_writes(ptr, old_size, new_size, alignment, a, c1, c2) ==
    IF new_size <= old_size
    THEN <<>>
    ELSE realloc_copy(ptr, old_size,
                      lzarena_alloc_align(new_size, alignment, a, c1, c2))

\* lzarena_realloc_align: the arena afterwards, the pointer returned, how the
\* call ended, and whether memcpy was given a NULL destination.
lzarena_realloc_align(ptr, old_size, new_size, alignment, a, c1, c2, ub) ==
    IF new_size <= old_size
    THEN [a |-> a, ptr |-> ptr, died |-> "live", nullcopy |-> FALSE]
    ELSE copy_old(ptr, old_size,
                  lzarena_alloc_align(new_size, alignment, a, c1, c2), ub)

\* ---------------------------------------------------------------- actions
NoProbe == <<>>
ProbePairs == {<<4, 8>>, <<20, 1>>}

Block(ptr, size) == IF ptr = NULL THEN {} ELSE ptr .. (ptr + size - 1)

Min(S) == CHOOSE x \in S : \A y \in S : x <= y

\* The pointers a caller passes to realloc, with the sizes it may give for
\* them: none, or its lowest live block.
CallerBlocks ==
    {<<NULL, 0>>} \cup
    (IF occupied = {} THEN {}
     ELSE {<<Min(occupied), n>> : n \in {s \in NewSizes : Block(Min(occupied), s) \subseteq occupied}})

\* The backend is asked at line 292 only when the chain is empty.
FirstChoices == IF tail = NULL THEN BackendChoices ELSE {-1}

Apply(a) ==
    /\ head' = a.head
    /\ tail' = a.tail
    /\ region' = a.region
    /\ brk' = a.brk
    /\ acq' = a.acq

\* What an allocating call leaves behind besides the arena itself.
Account(a, ptr, size) ==
    /\ occupied' = occupied \cup Block(ptr, size)
    /\ sinceAppend' = IF Len(a.acq) > Len(acq) THEN FALSE ELSE sinceAppend
    /\ fresh' = FALSE

InitWith(p) ==
    /\ allocator \in BOOLEAN
    /\ head = NULL
    /\ tail = NULL
    /\ region = <<>>
    /\ acq = <<[addr |-> IF allocator THEN BaseAddr
                         ELSE align_forward(BaseAddr, LZARENA_DEFAULT_ALIGNMENT),
                len  |-> ARENA_SIZE]>>
    /\ brk = acq[1].addr + ARENA_SIZE
    /\ rel = <<>>
    /\ pc = "live"
    /\ occupied = {}
    /\ sinceAppend = FALSE
    /\ fresh = FALSE
    /\ probe = p
    /\ probeSeen = FALSE

Init == InitWith(NoProbe)

InitReuse == \E p \in ProbePairs : InitWith(p)

Alloc ==
    \E size \in Sizes, alignment \in Alignments,
       c1 \in FirstChoices, c2 \in BackendChoices :
        LET res == lzarena_alloc_align(size, alignment, Arena, c1, c2)
        IN  /\ pc = "live"
            /\ Apply(res.a)
            /\ pc' = res.died
            /\ Account(res.a, res.ptr, size)
            /\ probeSeen' = (probeSeen \/ (probe = <<size, alignment>> /\ res.ptr # NULL))
            /\ UNCHANGED <<allocator, rel, probe>>

Calloc ==
    \E size \in Sizes, alignment \in Alignments,
       c1 \in FirstChoices, c2 \in BackendChoices :
        LET res == lzarena_calloc_align(size, alignment, Arena, c1, c2)
        IN  /\ pc = "live"
            /\ Apply(res.a)
            /\ pc' = res.died
            /\ Account(res.a, res.ptr, size)
            /\ UNCHANGED <<allocator, rel, probe, probeSeen>>

Realloc ==
    \E old \in CallerBlocks, new_size \in NewSizes, alignment \in Alignments,
       c1 \in FirstChoices, c2 \in BackendChoices :
      \E ub \in (IF old[1] = NULL THEN {"none"} ELSE UBOutcomes) :
        LET res == lzarena_realloc_align(old[1], old[2], new_size, alignment,
                                         Arena, c1, c2, ub)
        IN  /\ pc = "live"
            /\ Apply(res.a)
            /\ pc' = res.died
            /\ Account(res.a, IF new_size > old[2] THEN res.ptr ELSE NULL, new_size)
            /\ UNCHANGED <<allocator, rel, probe, probeSeen>>

FreeAll ==
    /\ pc = "live"
    /\ Apply(lzarena_free_all(Arena))
    /\ occupied' = {}
    /\ sinceAppend' = TRUE
    /\ fresh' = TRUE
    /\ UNCHANGED <<allocator, rel, pc, probe, probeSeen>>

Report ==
    /\ pc = "live"
    /\ pc' = IF lzarena_report_asserts(Arena) THEN "live" ELSE "assert"
    /\ Apply(report_walk(Arena, head, 0, 0).a)
    /\ UNCHANGED <<allocator, rel, occupied, sinceAppend, fresh, probe, probeSeen>>

Destroy ==
    /\ pc = "live"
    /\ pc' = "destroyed"
    /\ rel' = rel \o lzarena_destroy(Arena)
    /\ UNCHANGED <<head, tail, region, allocator, brk, acq, occupied,
                   sinceAppend, fresh, probe, probeSeen>>

Next == Alloc \/ Calloc \/ Realloc \/ FreeAll \/ Report \/ Destroy

Spec == Init /\ [][Next]_vars

SpecReuse == InitReuse /\ [][Next]_vars

\* ----------------------------------------------------------------- claims
\* Whether the block [p, p + n) lies inside the usable span of region r.
InSpan(r, p, n) == r.chunk <= p /\ p + n <= r.chunk + r.chunk_len

\* The regions of arena a whose usable span holds the block [p, p + n).
SpansHolding(a, p, n) == {x \in Range(Chain(a)) : InSpan(a.region[x], p, n)}

\* C1: a block returned by a successful lzarena_alloc_align shares no address
\* with any block the arena returned since its creation or its last free_all.
C1_NoOverlap ==
    pc = "live" =>
        \A size \in Sizes, alignment \in Alignments,
           c1 \in FirstChoices, c2 \in BackendChoices :
            lzarena_alloc_align(size, alignment, Arena, c1, c2).ptr # NULL =>
                Block(lzarena_alloc_align(size, alignment, Arena, c1, c2).ptr, size)
                    \cap occupied = {}

\* A successful allocation right behind a block returned earlier.
C1_Witness ==
    /\ pc = "live"
    /\ \E size \in Sizes \ {0}, alignment \in Alignments, c2 \in BackendChoices :
        LET ptr == lzarena_alloc_align(size, alignment, Arena, -1, c2).ptr
        IN  ptr # NULL /\ (ptr - 1) \in occupied

\* C2: a successful lzarena_alloc_align returns a multiple of alignment, and
\* the block lies inside the usable span of exactly one region of the chain.
C2_AlignedInOneSpan ==
    pc = "live" =>
        \A size \in Sizes, alignment \in Alignments,
           c1 \in FirstChoices, c2 \in BackendChoices :
            LET res == lzarena_alloc_align(size, alignment, Arena, c1, c2)
            IN  res.ptr # NULL =>
                    /\ res.ptr % alignment = 0
                    /\ Cardinality(SpansHolding(res.a, res.ptr, size)) = 1

\* C3: base <= cursor <= base + usableLength in every region of the chain.
C3_CursorInBounds ==
    \A x \in Range(Chain(Arena)) :
        /\ region[x].chunk <= region[x].offset
        /\ region[x].offset <= region[x].chunk + region[x].chunk_len

\* C4 as claimed: whenever the chain is non-empty, tail.next is empty.
C4_TailIsLast ==
    (pc = "live" /\ head # NULL) => region[tail].next = NULL

\* C4 as amended: tail is always a region of the chain, and tail.next is
\* empty as long as free_all has not been called since the last append.
C4_TailInChain ==
    (pc = "live" /\ head # NULL) =>
        /\ tail \in Range(Chain(Arena))
        /\ (~sinceAppend => region[tail].next = NULL)

\* Two regions, no free_all since the second was appended.
C4_Witness ==
    pc = "live" /\ Len(Chain(Arena)) >= 2 /\ ~sinceAppend

\* The regions built on the buffers acquired after the arena header, in
\* acquisition order.
AcquiredRegions ==
    [i \in 1 .. Len(acq) - 1 |-> lzregion_init(acq[i + 1].len, acq[i + 1].addr).addr]

\* C5: the chain from head is duplicate-free and holds exactly the regions
\* acquired so far, in acquisition order.
C5_ChainIsAcquisitionOrder ==
    pc = "live" =>
        /\ Chain(Arena) = AcquiredRegions
        /\ Cardinality(Range(Chain(Arena))) = Len(Chain(Arena))

\* A second region was appended behind the first.
C5_Witness ==
    pc = "live" /\ Len(Chain(Arena)) >= 2 /\ region[head].next = tail

\* Sum of cursor - base, and of usableLength, over the chain.
RECURSIVE SumCursor(_, _)
SumCursor(rs, c) ==
    IF c = <<>> THEN 0
    ELSE (rs[Head(c)].offset - rs[Head(c)].chunk) + SumCursor(rs, Tail(c))

RECURSIVE SumUsable(_, _)
SumUsable(rs, c) ==
    IF c = <<>> THEN 0 ELSE rs[Head(c)].chunk_len + SumUsable(rs, Tail(c))

\* C6: report gives total = sum of usableLength and used = sum of
\* (cursor - base) over the regions of the chain.
C6_ReportSums ==
    pc = "live" =>
        /\ lzarena_report(Arena).size = SumUsable(region, Chain(Arena))
        /\ lzarena_report(Arena).used = SumCursor(region, Chain(Arena))

\* C7: free_all puts every cursor of the chain back to its base and tail to
\* head; the chain, every region's base, usable length, capacity and link,
\* and the backend are as before; report's used is 0 afterwards.
C7_ResetFrame ==
    pc = "live" =>
        LET a2 == lzarena_free_all(Arena)
        IN  /\ \A x \in Range(Chain(a2)) : a2.region[x].offset = a2.region[x].chunk
            /\ a2.tail = a2.head
            /\ a2.head = head
            /\ Chain(a2) = Chain(Arena)
            /\ DOMAIN a2.region = DOMAIN region
            /\ \A x \in DOMAIN region :
                   a2.region[x] = [region[x] EXCEPT !.offset = a2.region[x].offset]
            /\ a2.brk = brk
            /\ a2.acq = acq
            /\ lzarena_report(a2).used = 0

\* free_all was just called on a chain of two regions that both held blocks
\* and whose tail had moved to the second.
C7_Witness ==
    /\ pc = "live"
    /\ fresh
    /\ Len(Chain(Arena)) >= 2
    /\ tail = head
    /\ \A x \in Range(Chain(Arena)) : region[x].offset = region[x].chunk

C9_FailureChangesNothing ==
    pc = "live" =>
        \A size \in Sizes, alignment \in Alignments,
           c1 \in FirstChoices, c2 \in BackendChoices :
            LET res == lzarena_alloc_align(size, alignment, Arena, c1, c2)
            IN  (res.ptr = NULL /\ res.died = "live") =>
                    /\ res.a.head = head
                    /\ res.a.tail = tail
                    /\ res.a.region = region

\* C10: a growing realloc of a non-empty pointer that cannot obtain a new
\* block returns NULL, copies nothing through it and does not end fatally.
C10_GrowFailureReturnsNull ==
    pc = "live" =>
        \A old \in CallerBlocks, new_size \in NewSizes, alignment \in Alignments,
           c1 \in FirstChoices, c2 \in BackendChoices, ub \in UBOutcomes :
            (/\ old[1] # NULL
             /\ new_size > old[2]
             /\ lzarena_alloc_align(new_size, alignment, Arena, c1, c2).ptr = NULL
             /\ lzarena_alloc_align(new_size, alignment, Arena, c1, c2).died = "live")
            => LET res == lzarena_realloc_align(old[1], old[2], new_size, alignment,
                                                Arena, c1, c2, ub)
               IN  res.ptr = NULL /\ res.died = "live" /\ ~res.nullcopy


\* The pointers and old sizes a caller may pass to a shrinking realloc: any
\* pointer at all, live or not.
ShrinkPointers ==
    {NULL, Word - 1} \cup (IF occupied = {} THEN {} ELSE {Min(occupied)})

ShrinkSizes == {0, 4, 20}

\* C11: with new_size <= old_size, lzarena_realloc_align and
\* lzregion_realloc_align return the pointer they were given, leave every
\* cursor, tail, the chain and the backend as they were, and write no memory.
C11_ShrinkIsIdentity ==
    pc = "live" =>
        \A ptr \in ShrinkPointers, old_size \in ShrinkSizes, new_size \in ShrinkSizes,
           alignment \in Alignments, c1 \in FirstChoices, c2 \in BackendChoices :
            new_size <= old_size =>
                /\ \A ub \in UBOutcomes :
                       lzarena_realloc_align(ptr, old_size, new_size, alignment,
                                             Arena, c1, c2, ub)
                       = [a |-> Arena, ptr |-> ptr, died |-> "live", nullcopy |-> FALSE]
                /\ lzarena_realloc_align_writes(ptr, old_size, new_size, alignment,
                                                Arena, c1, c2) = <<>>
                /\ \A x \in Range(Chain(Arena)) :
                       lzregion_realloc_align(ptr, old_size, new_size, alignment, region[x])
                       = [ptr |-> ptr, hdr |-> region[x], writes |-> <<>>]

\* A live block of 20 bytes is shrunk to 4 in a state where an allocation of
\* 4 bytes would have moved a cursor.
C11_Witness ==
    /\ pc = "live"
    /\ <<Min(occupied \cup {Word}), 20>> \in CallerBlocks
    /\ \E alignment \in Alignments :
        /\ lzarena_realloc_align(Min(occupied), 20, 4, alignment, Arena, -1, -1, "none").ptr
               = Min(occupied)
        /\ lzarena_alloc_align(4, alignment, Arena, -1, -1).a.region # region


\* A memory content in which every byte differs from its neighbours: each
\* byte holds its own address.
AddressBytes == [x \in Addrs |-> x]

Max(S) == CHOOSE x \in S : \A y \in S : x >= y

GrowOldSizes == {1, 4, 20}
GrowNewSizes == {4, 20, 24}

\* Live blocks of at least one byte: the lowest and the highest n live bytes.
LiveBlocks ==
    IF occupied = {} THEN {}
    ELSE {b \in {<<Min(occupied), n>> : n \in GrowOldSizes}
                \cup {<<Max(occupied) - n + 1, n>> : n \in GrowOldSizes} :
             Block(b[1], b[2]) \subseteq occupied}

\* What C12 says of the growing realloc of block [p, p + n) to new_size.
GrowMovesAndCopies(p, n, new_size, alignment, a, c1, c2) ==
    LET res   == lzarena_realloc_align(p, n, new_size, alignment, a, c1, c2, "none")
        alloc == lzarena_alloc_align(new_size, alignment, a, c1, c2)
        after == Written(AddressBytes,
                         lzarena_realloc_align_writes(p, n, new_size, alignment, a, c1, c2))
    IN  (res.ptr # NULL /\ res.died = "live") =>
            /\ res.ptr # p
            /\ res.ptr = alloc.ptr
            /\ res.a = alloc.a
            /\ \A i \in 0 .. (n - 1) : after[res.ptr + i] = AddressBytes[p + i]
            /\ \A i \in 0 .. (n - 1) : after[p + i] = AddressBytes[p + i]

\* C12 as amended: for a live block of old_size >= 1 bytes, a successful
\* growing lzarena_realloc_align returns another address, the one
\* lzarena_alloc_align(new_size) gives with the same effect on the arena; its
\* first old_size bytes are the old block's and the old block is untouched.
C12_GrowMovesNonEmptyBlock ==
    pc = "live" =>
        \A b \in LiveBlocks, new_size \in GrowNewSizes, alignment \in Alignments,
           c1 \in FirstChoices, c2 \in BackendChoices :
            new_size > b[2] =>
                GrowMovesAndCopies(b[1], b[2], new_size, alignment, Arena, c1, c2)

\* C12 as claimed: the same for every live block, a block of 0 bytes just
\* returned by lzarena_alloc_align included.
C12_GrowMovesEveryBlock ==
    pc = "live" =>
        /\ C12_GrowMovesNonEmptyBlock
        /\ \A new_size \in GrowNewSizes, alignment \in Alignments,
              c1 \in FirstChoices, c2 \in BackendChoices :
            LET empty == lzarena_alloc_align(0, alignment, Arena, c1, c2)
            IN  (empty.ptr # NULL /\ empty.died = "live") =>
                    GrowMovesAndCopies(empty.ptr, 0, new_size, alignment,
                                       empty.a, -1, c2)

\* A live block of 4 bytes can grow to 20 in its own region and to 24 only in
\* a region appended for it.
C12_Witness ==
    /\ pc = "live"
    /\ \E b \in LiveBlocks :
        /\ b[2] = 4
        /\ lzarena_realloc_align(b[1], 4, 20, 1, Arena, -1, -1, "none").ptr # NULL
        /\ lzarena_realloc_align(b[1], 4, 24, 1, Arena, -1, -1, "none").ptr = NULL
        /\ lzarena_realloc_align(b[1], 4, 24, 1, Arena, -1, 0, "none").ptr # NULL


\* C13: with a custom backend, once the arena is destroyed, release has been
\* called exactly once for every buffer acquired (region buffers and the arena
\* header), with the buffer's address and its acquired size, and for nothing
\* else.
C13_ReleaseMatchesAcquire ==
    (pc = "destroyed" /\ allocator) =>
        /\ Len(rel) = Len(acq)
        /\ \A i \in 1 .. Len(acq) :
               Cardinality({j \in 1 .. Len(rel) : rel[j] = acq[i]}) = 1
        /\ \A j \in 1 .. Len(rel) : \E i \in 1 .. Len(acq) : rel[j] = acq[i]


\* C14: when lzarena_alloc_align acquires a buffer (no region had room and
\* the backend gave one), exactly one region is appended to the chain, its
\* usable length is at least size, and the call returns a block.
C14_GrowthServesRequest ==
    pc = "live" =>
        \A size \in Sizes, alignment \in Alignments,
           c1 \in FirstChoices, c2 \in BackendChoices :
            LET res == lzarena_alloc_align(size, alignment, Arena, c1, c2)
            IN  (res.died = "live" /\ Len(res.a.acq) > Len(acq)) =>
                    /\ Len(res.a.acq) = Len(acq) + 1
                    /\ Len(Chain(res.a)) = Len(Chain(Arena)) + 1
                    /\ SubSeq(Chain(res.a), 1, Len(Chain(Arena))) = Chain(Arena)
                    /\ res.a.region[res.a.tail].chunk_len >= size
                    /\ res.ptr # NULL


\* Alignment arguments that are not powers of two.
BadAlignments == {0, 3, 6}

\* C15: an lzarena_alloc_align, lzarena_calloc_align or growing
\* lzarena_realloc_align call whose alignment is not a power of two ends in
\* an assertion failure, with the arena, its regions and the backend as they
\* were and no pointer returned.
C15_BadAlignmentAsserts ==
    pc = "live" =>
        \A size \in Sizes, alignment \in BadAlignments,
           c1 \in FirstChoices, c2 \in BackendChoices :
            /\ lzarena_alloc_align(size, alignment, Arena, c1, c2)
                   = [a |-> Arena, ptr |-> NULL, died |-> "assert"]
            /\ lzarena_calloc_align(size, alignment, Arena, c1, c2)
                   = [a |-> Arena, ptr |-> NULL, died |-> "assert"]
            /\ size > 0 =>
                   lzarena_realloc_align(NULL, 0, size, alignment, Arena, c1, c2, "none")
                   = [a |-> Arena, ptr |-> NULL, died |-> "assert", nullcopy |-> FALSE]


\* A memory content without a zero byte.
DirtyBytes == [x \in Addrs |-> Word - 1]

\* C16: right after a successful lzarena_calloc_align or
\* lzregion_calloc_align of size bytes, every byte of the returned block is
\* zero, whatever the memory held before.
C16_CallocZeroes ==
    pc = "live" =>
        \A m \in {DirtyBytes, AddressBytes}, size \in Sizes, alignment \in Alignments :
            /\ \A c1 \in FirstChoices, c2 \in BackendChoices :
                LET res   == lzarena_calloc_align(size, alignment, Arena, c1, c2)
                    after == Written(m, lzarena_calloc_align_writes(size, alignment,
                                                                    Arena, c1, c2))
                IN  (res.ptr # NULL /\ res.died = "live") =>
                        \A x \in Block(res.ptr, size) : after[x] = 0
            /\ \A r \in Range(Chain(Arena)) :
                LET res   == lzregion_calloc_align(size, alignment, region[r])
                    after == Written(m, res.writes)
                IN  res.ptr # NULL => \A x \in Block(res.ptr, size) : after[x] = 0

\* Right after a free_all on a single region in which a block of 20 bytes had
\* been allocated, lzarena_calloc_align(20) returns a block over bytes of the
\* old one.
C16_Witness ==
    /\ pc = "live" /\ fresh /\ probeSeen
    /\ probe = <<20, 1>>
    /\ Len(Chain(Arena)) = 1
    /\ lzarena_calloc_align(20, 1, Arena, -1, -1).ptr = region[head].chunk
    /\ DirtyBytes[region[head].chunk + 19] # 0
    /\ Written(DirtyBytes, lzarena_calloc_align_writes(20, 1, Arena, -1, -1))
           [region[head].chunk + 19] = 0


\* C17: lzarena_report leaves head, tail, the chain, every cursor and the
\* backend as they were, and a second report right after the first gives the
\* same used and size.
C17_ReportReadsOnly ==
    pc = "live" =>
        /\ report_walk(Arena, head, 0, 0).a = Arena
        /\ report_walk(report_walk(Arena, head, 0, 0).a,
                       report_walk(Arena, head, 0, 0).a.head, 0, 0).used
               = report_walk(Arena, head, 0, 0).used
        /\ report_walk(report_walk(Arena, head, 0, 0).a,
                       report_walk(Arena, head, 0, 0).a.head, 0, 0).size
               = report_walk(Arena, head, 0, 0).size

\* A report over two regions holding blocks, with tail not at the last one.
C17_Witness ==
    /\ pc = "live"
    /\ Len(Chain(Arena)) >= 2
    /\ region[tail].next # NULL
    /\ occupied # {}
    /\ report_walk(Arena, head, 0, 0).size
           = region[head].chunk_len + region[region[head].next].chunk_len


\* The smallest positive multiple of the default block length that is >= n.
BlocksFor(n) ==
    LET block == PAGE_SIZE * LZARENA_DEFAULT_FACTOR
    IN  IF n <= block THEN block ELSE block * ((n + block - 1) \div block)

\* C18: for every request size of the machine-word range, the buffer length
\* append_region asks of the backend is the smallest positive multiple of the
\* default block length that is >= size + REGION_SIZE.
C18_GrowthSizing ==
    pc = "live" =>
        \A size \in 0 .. (Word - 1) :
            /\ buff_len_for(size) = BlocksFor(size + REGION_SIZE)
            /\ \A c \in BackendChoices :
                   Len(append_region(size, Arena, c).a.acq) > Len(acq) =>
                       append_region(size, Arena, c).a.acq[Len(acq) + 1].len
                           = BlocksFor(size + REGION_SIZE)


\* The position of region x in chain c, 0 when x is NULL.
PosIn(c, x) == IF x = NULL THEN 0 ELSE CHOOSE i \in 1 .. Len(c) : c[i] = x

\* The regions of the chain that precede tail.
BeforeTail == {Chain(Arena)[i] : i \in 1 .. (PosIn(Chain(Arena), tail) - 1)}

\* C19: an allocating call never moves tail backwards in the chain, and it
\* neither moves the cursor of a region that precedes tail nor returns a
\* block from one, whatever room that region has.
C19_TailOnlyForward ==
    pc = "live" =>
        \A size \in Sizes, alignment \in Alignments,
           c1 \in FirstChoices, c2 \in BackendChoices :
            LET res == lzarena_alloc_align(size, alignment, Arena, c1, c2)
            IN  /\ PosIn(Chain(res.a), res.a.tail) >= PosIn(Chain(Arena), tail)
                /\ \A x \in BeforeTail :
                       /\ res.a.region[x] = region[x]
                       /\ res.ptr # NULL => ~InSpan(region[x], res.ptr, size)
                /\ lzarena_calloc_align(size, alignment, Arena, c1, c2).a.tail = res.a.tail
                /\ size > 0 =>
                       lzarena_realloc_align(NULL, 0, size, alignment, Arena, c1, c2,
                                             "none").a.tail = res.a.tail

\* tail is at the second region, the first still has room for 4 bytes, and
\* a request of 4 bytes is served from the second.
C19_Witness ==
    /\ pc = "live"
    /\ Len(Chain(Arena)) >= 2
    /\ tail # head
    /\ ~fresh
    /\ lzregion_available_alignment(1, region[head]) >= 4
    /\ lzarena_alloc_align(4, 1, Arena, -1, -1).ptr # NULL
    /\ InSpan(region[tail], lzarena_alloc_align(4, 1, Arena, -1, -1).ptr, 4)


\* Whether some region from tail to the end of the chain has alignment-aware
\* room for size bytes.
RoomFromTail(size, alignment) ==
    /\ tail # NULL
    /\ \E i \in PosIn(Chain(Arena), tail) .. Len(Chain(Arena)) :
           lzregion_available_alignment(alignment, region[Chain(Arena)[i]]) >= size

\* C20: one lzarena_alloc_align call acquires no buffer when a region from
\* tail on has room for the request, one buffer when it returns a block that
\* no such region had room for, and never two or more.
C20_AtMostOneAcquisition ==
    pc = "live" =>
        \A size \in Sizes, alignment \in Alignments,
           c1 \in FirstChoices, c2 \in BackendChoices :
            LET res == lzarena_alloc_align(size, alignment, Arena, c1, c2)
            IN  /\ Len(res.a.acq) - Len(acq) <= 1
                /\ RoomFromTail(size, alignment) => Len(res.a.acq) = Len(acq)
                /\ (~RoomFromTail(size, alignment) /\ res.ptr # NULL)
                       => Len(res.a.acq) = Len(acq) + 1

====
